---- MODULE Spec2Model ----
(***************************************************************************)
(* RouteWeather: the planning pipeline of app.py (plan), the waypoint      *)
(* sampler and arrival estimator of routing.py, and the forecast fetch,    *)
(* time alignment and precipitation decoder of weather.py.                 *)
(*                                                                         *)
(* Units.  Distances along the route are integers counting 1/30 mile, so   *)
(* that round(x, 1) (tenths of a mile = 3 units) never meets a tie; the    *)
(* stored 'mile' of a waypoint is in tenths of a mile.  Times are integer  *)
(* seconds.  A route geometry is a sequence of positions on a line and     *)
(* haversine_mi is the absolute difference of two positions.               *)
(***************************************************************************)
EXTENDS Integers, Sequences, FiniteSets, TLC

VARIABLES
    pc,            \* control state of the request / of the function under study
    form,          \* plan: the submitted form fields
    stages,        \* plan: the pipeline stages that were started, in order
    message,       \* plan: what the request ended with
    start_coords,  \* plan: what geocode(start_addr) returned
    end_coords,    \* plan: what geocode(end_addr) returned
    route_data,    \* plan: what get_route returned
    coords,        \* sample_waypoints: the route geometry
    interval_mi,   \* sample_waypoints: interval between checkpoints (units)
    total_dist_mi, \* sample_waypoints: the router's total distance (units)
    accumulated,   \* sample_waypoints: local accumulated
    next_target,   \* sample_waypoints: local next_target
    wp_index,      \* sample_waypoints: local wp_index
    i,             \* sample_waypoints: the for loop's i: the segment coords[i] -> coords[i+1], 1-based
    waypoints,     \* the waypoint list the stages fill in
    departure_dt,  \* estimate_arrival_times: departure (seconds)
    avg_speed,     \* estimate_arrival_times: average speed (mph)
    responses,     \* fetch: what the forecast service answers for each waypoint
    futures,       \* fetch: state of the future submitted for each waypoint
    results,       \* fetch: outcome held by each finished future
    writes,        \* fetch: per waypoint, the futures whose outcome was stored
    times,         \* _nearest_hour_index: argument times
    target,        \* _nearest_hour_index: argument target
    best,          \* _nearest_hour_index: returned value
    codes,         \* decoder: <<precipitation_type value, weather_code value>>
    decoded        \* decoder: outcome of the decode section

vars ==
    << pc, form, stages, message, start_coords, end_coords, route_data, coords, interval_mi, total_dist_mi,
       accumulated, next_target, wp_index, i, waypoints, departure_dt,
       avg_speed, responses, futures, results, writes, times, target, best,
       codes, decoded >>

planVars == << form, stages, message, start_coords, end_coords, route_data >>
sampleVars == << coords, interval_mi, total_dist_mi, accumulated, next_target, wp_index, i >>
estimateVars == << departure_dt, avg_speed >>
fetchVars == << responses, futures, results, writes >>
nearestVars == << times, target, best >>
decodeVars == << codes, decoded >>

-----------------------------------------------------------------------------
(* Bounds of the model *)

\* longest route geometry, in segments
MaxSegs == 3
\* cap on the waypoints one sampling run may emit (the loop is unbounded
\* for interval_mi <= 0)
MaxEmit == 9
\* most waypoints of a request whose retrievals are answered in every combination
FullMix == 2
\* most waypoints of a request handed to fetch_weather_for_waypoints directly
MaxWaypoints == 7

-----------------------------------------------------------------------------
(* Optional values: Python's None is the empty sequence, a value v is <<v>> *)

None == << >>

Some(v) == << v >>

Abs(x) == IF x < 0 THEN -x ELSE x

\* round(x, 1) of a distance: units of 1/30 mile to tenths of a mile
\* (x mod 3 is never a tie)
Round1(x) == (x + 1) \div 3

\* round(x, 0) of a distance, to whole miles: Python rounds a tie to even
Round0(x) ==
    LET q == x \div 30
        r == x % 30
    IN  IF r < 15 THEN q
        ELSE IF r > 15 THEN q + 1
        ELSE IF q % 2 = 0 THEN q ELSE q + 1

\* a weather slot that no stage has written yet (the dict has no 'weather' key)
Pending == [pending |-> TRUE]

\* an arrival that no stage has written yet (the dict has no 'arrival_dt' key)
NoArrival == [set |-> FALSE]

-----------------------------------------------------------------------------
(* routing.py: geometry helpers *)

haversine_mi(a, b) == Abs(b - a)

\* the point at distance d from a on the segment a -> b of length seg_dist > 0
\* (frac = d / seg_dist applied to b - a)
interpolate_point(a, b, d, seg_dist) == a + ((b - a) * d) \div seg_dist

-----------------------------------------------------------------------------
(* routing.py: sample_waypoints, one action per loop step.                 *)
(* pc: "sample" (entry) -> "loop" -> "sampled" (returned) or "raised".     *)

\* line 136: the length of the segment coords[i-1] -> coords[i] of the code,
\* which is coords[i] -> coords[i+1] in the 1-based indices used here
seg_dist == haversine_mi(coords[i], coords[i + 1])

\* lines 140-146: the waypoint emitted for next_target on the current segment
Checkpoint ==
    [ pos     |-> interpolate_point(coords[i], coords[i + 1],
                                    next_target - accumulated, seg_dist),
      mile    |-> Round1(next_target),
      label   |-> << "Checkpoint", wp_index, Round0(next_target) >>,
      arrival |-> NoArrival,
      weather |-> Pending ]

\* lines 153-159: the destination waypoint
Destination ==
    [ pos     |-> coords[Len(coords)],
      mile    |-> Round1(total_dist_mi),
      label   |-> << "Destination", 0, Round0(total_dist_mi) >>,
      arrival |-> NoArrival,
      weather |-> Pending ]

\* the locals initialised with the first target at mile 0
SampleEnterAtZero ==
    /\ pc = "sample"
    /\ waypoints' = << >>
    /\ accumulated' = 0
    /\ next_target' = 0
    /\ wp_index' = 1
    /\ i' = 1
    /\ pc' = "loop"
    /\ stages' = Append(stages, "sample")
    /\ UNCHANGED << coords, interval_mi, total_dist_mi >>
    /\ UNCHANGED << form, message, start_coords, end_coords, route_data >>
    /\ UNCHANGED << estimateVars, fetchVars, nearestVars, decodeVars >>

\* lines 127-132: the locals are initialised
SampleEnter ==
    /\ pc = "sample"
    /\ waypoints' = << >>
    /\ accumulated' = 0
    /\ next_target' = interval_mi
    /\ wp_index' = 1
    /\ i' = 1
    /\ pc' = "loop"
    /\ stages' = Append(stages, "sample")
    /\ UNCHANGED << coords, interval_mi, total_dist_mi >>
    /\ UNCHANGED << form, message, start_coords, end_coords, route_data >>
    /\ UNCHANGED << estimateVars, fetchVars, nearestVars, decodeVars >>

\* line 134: the for loop's range(1, len(coords))
InSegment == pc = "loop" /\ i >= 1 /\ i < Len(coords)

\* line 138: the while loop's condition
WhileCond == next_target <= accumulated + seg_dist

\* lines 138-148: one pass of the while loop; line 139 divides by seg_dist
\* and raises ZeroDivisionError when the segment has length 0
SampleEmit ==
    /\ InSegment
    /\ WhileCond
    /\ Len(waypoints) < MaxEmit
    /\ IF seg_dist = 0
       THEN /\ pc' = "raised"
            /\ UNCHANGED << waypoints, next_target, wp_index >>
       ELSE /\ waypoints' = Append(waypoints, Checkpoint)
            /\ wp_index' = wp_index + 1
            /\ next_target' = next_target + interval_mi
            /\ pc' = pc
    /\ UNCHANGED << coords, interval_mi, total_dist_mi, accumulated, i >>
    /\ UNCHANGED << planVars, estimateVars, fetchVars, nearestVars, decodeVars >>

\* lines 150-151: the while loop is left, the segment is accounted for
SampleAdvance ==
    /\ InSegment
    /\ ~WhileCond
    /\ accumulated' = accumulated + seg_dist
    /\ i' = i + 1
    /\ UNCHANGED << pc, coords, interval_mi, total_dist_mi, next_target, wp_index, waypoints >>
    /\ UNCHANGED << planVars, estimateVars, fetchVars, nearestVars, decodeVars >>

\* lines 153-161: the destination is appended and the list returned
SampleFinish ==
    /\ pc = "loop"
    /\ i = Len(coords)
    /\ waypoints' = Append(waypoints, Destination)
    /\ pc' = "sampled"
    /\ UNCHANGED sampleVars
    /\ UNCHANGED << planVars, estimateVars, fetchVars, nearestVars, decodeVars >>

-----------------------------------------------------------------------------
(* routing.py: estimate_arrival_times *)

\* n / d rounded to the nearest integer, a tie to even, for d > 0
RoundDiv(n, d) ==
    LET q == n \div d
        r == n % d
    IN  IF 2 * r < d THEN q
        ELSE IF 2 * r > d THEN q + 1
        ELSE IF q % 2 = 0 THEN q ELSE q + 1

\* the elapsed time with the quotient taken for minutes instead of hours
ElapsedInMinutes(mile, speed) ==
    IF speed > 0 THEN RoundDiv(mile * 6, speed)
    ELSE -RoundDiv(mile * 6, -speed)

\* lines 176-177: timedelta(hours = mile / avg_speed_mph) in seconds, for a mile
\* in tenths; timedelta rounds to its resolution (microseconds in the code,
\* seconds here), a tie to even
Elapsed(mile, speed) ==
    IF speed > 0 THEN RoundDiv(mile * 360, speed)
    ELSE -RoundDiv(mile * 360, -speed)

\* lines 176-179: arrival_dt, and the minute arrival_str shows
Arrival(dep, mile, speed) ==
    LET t == dep + Elapsed(mile, speed)
    IN  [set |-> TRUE, dt |-> t, str |-> t \div 60]

\* lines 175-180, the whole loop
WithArrivals(wps, dep, speed) ==
    [ k \in 1..Len(wps) |-> [wps[k] EXCEPT !.arrival = Arrival(dep, wps[k].mile, speed)] ]

\* line 88 of app.py: the call; line 176 divides by avg_speed_mph and raises
\* ZeroDivisionError when it is 0
PlanEstimate ==
    /\ pc = "sampled"
    /\ stages' = Append(stages, "estimate")
    /\ IF avg_speed = 0
       THEN /\ pc' = "raised"
            /\ UNCHANGED waypoints
       ELSE /\ waypoints' = WithArrivals(waypoints, departure_dt, avg_speed)
            /\ pc' = "fetch"
    /\ UNCHANGED << form, message, start_coords, end_coords, route_data >>
    /\ UNCHANGED << sampleVars, estimateVars, fetchVars, nearestVars, decodeVars >>

-----------------------------------------------------------------------------
(* weather.py: _nearest_hour_index.  An entry of the series is a record:   *)
(* [k |-> "ts", t |-> seconds] for a parsable timestamp, [k |-> "bad"] for *)
(* malformed text, [k |-> "null"] for None.  Indices are 1-based.          *)

Ts(t) == [k |-> "ts", t |-> t]

BadText == [k |-> "bad"]

Null == [k |-> "null"]

\* line 267: 12 * 3600
HorizonSeconds == 12 * 3600

\* the comparison of line 264 written with <=: a later entry at the same
\* difference would replace the earlier one
CloserOrEqual(diff, best_diff) == best_diff = None \/ diff <= best_diff[1]

\* line 264: diff < best_diff, best_diff starting at float("inf") (None here)
Closer(diff, best_diff) == best_diff = None \/ diff < best_diff[1]

\* line 267: best_diff <= 12 * 3600
WithinHorizon(best_diff) == best_diff # None /\ best_diff[1] <= HorizonSeconds

\* lines 258-267: the scan from entry k on.  datetime.fromisoformat raises
\* ValueError on malformed text, which line 261 catches, and TypeError on None,
\* which nothing in the function catches.
RECURSIVE Scan(_, _, _, _, _)
Scan(ts, tg, k, best_idx, best_diff) ==
    IF k > Len(ts)
    THEN [ raised |-> FALSE,
           idx    |-> IF WithinHorizon(best_diff) THEN best_idx ELSE None ]
    ELSE IF ts[k].k = "null" THEN [raised |-> TRUE, idx |-> None]
    ELSE IF ts[k].k = "bad" THEN Scan(ts, tg, k + 1, best_idx, best_diff)
    ELSE LET diff == Abs(ts[k].t - tg)
         IN  IF Closer(diff, best_diff)
             THEN Scan(ts, tg, k + 1, Some(k), Some(diff))
             ELSE Scan(ts, tg, k + 1, best_idx, best_diff)

\* lines 255-267
nearest_hour_index(ts, tg) == Scan(ts, tg, 1, None, None)

\* the call, as one step
NearestCall ==
    /\ pc = "nearest"
    /\ best' = nearest_hour_index(times, target)
    /\ pc' = "nearest_done"
    /\ UNCHANGED << times, target, waypoints >>
    /\ UNCHANGED << planVars, sampleVars, estimateVars, fetchVars, decodeVars >>

-----------------------------------------------------------------------------
(* weather.py: the precipitation decoder.  A precip_type is None or        *)
(* <<"rain">>, ...; a code is None or <<n>>.                               *)

\* lines 43-52 and 77: _PRECIP_TYPE_MAP.get(code, (None, f"Type {code}"))
PRECIP_TYPE_MAP(code) ==
    CASE code = 0  -> [precip_type |-> None,                  label |-> "No precipitation"]
      [] code = 1  -> [precip_type |-> Some("rain"),          label |-> "Rain"]
      [] code = 3  -> [precip_type |-> Some("freezing_rain"), label |-> "Freezing rain"]
      [] code = 5  -> [precip_type |-> Some("snow"),          label |-> "Snow"]
      [] code = 6  -> [precip_type |-> Some("snow"),          label |-> "Wet snow"]
      [] code = 7  -> [precip_type |-> Some("sleet"),         label |-> "Rain/snow mix"]
      [] code = 8  -> [precip_type |-> Some("sleet"),         label |-> "Ice pellets"]
      [] code = 12 -> [precip_type |-> Some("freezing_rain"), label |-> "Freezing drizzle"]
      [] OTHER     -> [precip_type |-> None,                  label |-> "Type n"]

\* lines 54-78
decode_precipitation_type(code) ==
    IF code = None
    THEN [precip_type |-> None, label |-> "Unknown"]
    ELSE PRECIP_TYPE_MAP(code[1])

\* lines 82-93: _WMO_LABEL.get(wmo_int)
WMO_LABEL(w) ==
    CASE w = 0  -> Some("Clear sky")
      [] w = 1  -> Some("Mainly clear")
      [] w = 2  -> Some("Partly cloudy")
      [] w = 3  -> Some("Overcast")
      [] w = 45 -> Some("Fog")
      [] w = 48 -> Some("Rime fog")
      [] w = 51 -> Some("Light drizzle")
      [] w = 53 -> Some("Moderate drizzle")
      [] w = 55 -> Some("Dense drizzle")
      [] w = 56 -> Some("Light freezing drizzle")
      [] w = 57 -> Some("Heavy freezing drizzle")
      [] w = 61 -> Some("Slight rain")
      [] w = 63 -> Some("Moderate rain")
      [] w = 65 -> Some("Heavy rain")
      [] w = 66 -> Some("Light freezing rain")
      [] w = 67 -> Some("Heavy freezing rain")
      [] w = 71 -> Some("Slight snow")
      [] w = 73 -> Some("Moderate snow")
      [] w = 75 -> Some("Heavy snow")
      [] w = 77 -> Some("Snow grains")
      [] w = 80 -> Some("Slight showers")
      [] w = 81 -> Some("Moderate showers")
      [] w = 82 -> Some("Heavy showers")
      [] w = 85 -> Some("Slight snow showers")
      [] w = 86 -> Some("Heavy snow showers")
      [] w = 95 -> Some("Thunderstorm")
      [] w = 96 -> Some("Thunderstorm w/ hail")
      [] w = 99 -> Some("Thunderstorm w/ hail")
      [] OTHER  -> None

\* lines 95-100: _WMO_PRECIP_TYPE.get(wmo_int)
WMO_PRECIP_TYPE(w) ==
    CASE w \in {45, 48}     -> Some("fog")
      [] w \in {80, 81, 82} -> Some("showers")
      [] w \in {85, 86}     -> Some("snow_showers")
      [] w \in {95, 96, 99} -> Some("thunderstorm")
      [] OTHER              -> None

\* the refinement with the guard 'precip_type is None' of line 230 dropped: any
\* WMO mapping would replace the primary type
RefineAlwaysOverride(pt, wmo_int) ==
    LET wmo_override == WMO_PRECIP_TYPE(wmo_int)
        wmo_label    == WMO_LABEL(wmo_int)
    IN  IF wmo_override # None
        THEN [precip_type |-> wmo_override, condition |-> wmo_label]
        ELSE IF pt.precip_type = None /\ wmo_label # None
        THEN [precip_type |-> pt.precip_type, condition |-> wmo_label]
        ELSE [precip_type |-> pt.precip_type, condition |-> Some(pt.label)]

\* lines 223-234: the refinement of the primary decode pt by the WMO code
RefineWithWmo(pt, wmo_int) ==
    LET wmo_override == WMO_PRECIP_TYPE(wmo_int)
        wmo_label    == WMO_LABEL(wmo_int)
    IN  IF wmo_override \in {Some("fog"), Some("thunderstorm")}
        THEN [precip_type |-> wmo_override, condition |-> wmo_label]
        ELSE IF pt.precip_type = None /\ wmo_override # None
        THEN [precip_type |-> wmo_override, condition |-> wmo_label]
        ELSE IF pt.precip_type = None /\ wmo_label # None
        THEN [precip_type |-> pt.precip_type, condition |-> wmo_label]
        ELSE [precip_type |-> pt.precip_type, condition |-> Some(pt.label)]

\* lines 214-234: precip_type and condition from the two values val() returned
DecodeCodes(precip_type_code, weather_code) ==
    LET pt_decoded == decode_precipitation_type(precip_type_code)
    IN  IF weather_code # None
        THEN RefineWithWmo(pt_decoded, weather_code[1])
        ELSE [precip_type |-> pt_decoded.precip_type, condition |-> Some(pt_decoded.label)]

\* the decode section, as one step
DecodeCall ==
    /\ pc = "decode"
    /\ decoded' = Some(DecodeCodes(codes[1], codes[2]))
    /\ pc' = "decode_done"
    /\ UNCHANGED << codes, waypoints >>
    /\ UNCHANGED << planVars, sampleVars, estimateVars, fetchVars, nearestVars >>

-----------------------------------------------------------------------------
(* weather.py: _fetch_one.  A response of the forecast service is a record  *)
(*   raises : "get" (requests.get raises), "json" (resp.json() raises) or   *)
(*            "none"                                                        *)
(*   status : the HTTP status code                                          *)
(*   has_hourly : whether the payload has the key "hourly"                  *)
(*   hourly : the arrays time, temperature_2m, precipitation_type and       *)
(*            weather_code (entries None or <<v>>; time entries as above)   *)
(* The other numeric arrays are read the way temperature_2m is and take no  *)
(* part in any decision; they are left out of the record.                   *)

\* lines 270-288
weather_unavailable(reason) ==
    [ available        |-> FALSE,
      reason           |-> Some(reason),
      temp_f           |-> None,
      precip_type_code |-> None,
      weather_code     |-> None,
      condition        |-> Some("Unavailable"),
      precip_type      |-> None ]

\* lines 187-194: val(key) for the array arr, with fallback None
val(arr, best_idx) ==
    IF best_idx <= Len(arr) /\ arr[best_idx] # None THEN arr[best_idx] ELSE None

\* lines 196-252: the record built for the selected hour
WeatherAt(hourly, best_idx) ==
    LET temp_f           == val(hourly.temperature_2m, best_idx)
        precip_type_code == val(hourly.precipitation_type, best_idx)
        weather_code     == val(hourly.weather_code, best_idx)
        d                == DecodeCodes(precip_type_code, weather_code)
    IN  [ available        |-> TRUE,
          reason           |-> None,
          temp_f           |-> temp_f,
          precip_type_code |-> precip_type_code,
          weather_code     |-> weather_code,
          condition        |-> d.condition,
          precip_type      |-> d.precip_type ]

Returned(rec) == [raised |-> FALSE, exc |-> "", value |-> rec]

Raised(e) == [raised |-> TRUE, exc |-> e, value |-> Pending]

\* lines 130-252: what the call returns, or the exception it raises
fetch_one(wp, resp) ==
    IF resp.raises = "get" THEN Raised("ConnectionError")
    ELSE IF resp.status # 200
    THEN Returned(weather_unavailable("Open-Meteo returned HTTP status"))
    ELSE IF resp.raises = "json" THEN Raised("JSONDecodeError")
    ELSE IF ~resp.has_hourly
    THEN Returned(weather_unavailable("No hourly data in Open-Meteo response."))
    ELSE IF resp.hourly.time = << >>
    THEN Returned(weather_unavailable("Empty time series from Open-Meteo."))
    ELSE LET b == nearest_hour_index(resp.hourly.time, wp.arrival.dt)
         IN  IF b.raised THEN Raised("TypeError")
             ELSE IF b.idx = None
             THEN Returned(weather_unavailable("Arrival time is outside the 15-day forecast window."))
             ELSE Returned(WeatherAt(resp.hourly, b.idx[1]))

-----------------------------------------------------------------------------
(* weather.py: fetch_weather_for_waypoints.  The executor has max_workers   *)
(* threads that take the submitted calls in submission order; the calling   *)
(* thread stores each outcome as as_completed hands the finished future     *)
(* over.  futures[k] is "pending", "running", "finished" or "collected".    *)

\* line 112: ThreadPoolExecutor(max_workers=6)
max_workers == 6

Running == { k \in 1..Len(futures) : futures[k] = "running" }

\* lines 120-123 with an except branch that only logs: nothing is stored for a
\* retrieval that raised
StoredWithoutFallback(res) == res.value

\* lines 120-123: what the calling thread stores for a finished future
Stored(res) == IF res.raised THEN weather_unavailable(res.exc) ELSE res.value

\* the hourly arrays of a forecast around noon of day 0: at 12:00 a null
\* temperature, precipitation_type 5 (snow) and weather_code 80 (showers)
SnowHourly ==
    [ time               |-> << Ts(39600), Ts(43200), Ts(46800) >>,
      temperature_2m     |-> << Some(30), None, Some(28) >>,
      precipitation_type |-> << Some(0), Some(5), Some(1) >>,
      weather_code       |-> << Some(3), Some(80), Some(61) >> ]

\* at 12:00 precipitation_type 0 and weather_code 95 (thunderstorm)
StormHourly ==
    [ time               |-> << Ts(43200), Ts(39600) >>,
      temperature_2m     |-> << Some(41), Some(40) >>,
      precipitation_type |-> << Some(0), None >>,
      weather_code       |-> << Some(95), Some(45) >> ]

\* a series that ends 20 hours before noon of day 0
PastHourly == [SnowHourly EXCEPT !.time = << Ts(-32400), Ts(-28800) >>]

OkSnow == [raises |-> "none", status |-> 200, has_hourly |-> TRUE, hourly |-> SnowHourly]

OkStorm == [OkSnow EXCEPT !.hourly = StormHourly]

ConnErr == [OkSnow EXCEPT !.raises = "get"]

Http500 == [OkSnow EXCEPT !.status = 500]

BadJson == [OkSnow EXCEPT !.raises = "json"]

NoHourly == [OkSnow EXCEPT !.has_hourly = FALSE]

EmptySeries == [OkSnow EXCEPT !.hourly.time = << >>]

OutOfHorizon == [OkSnow EXCEPT !.hourly = PastHourly]

NullInSeries == [OkSnow EXCEPT !.hourly.time = << Ts(43200), Null >>]

\* the answers, by name: the state holds the name of each waypoint's answer
Responses ==
    { "OkSnow", "OkStorm", "ConnErr", "Http500", "BadJson", "NoHourly",
      "EmptySeries", "OutOfHorizon", "NullInSeries" }

Answer(name) ==
    CASE name = "OkSnow"       -> OkSnow
      [] name = "OkStorm"      -> OkStorm
      [] name = "ConnErr"      -> ConnErr
      [] name = "Http500"      -> Http500
      [] name = "BadJson"      -> BadJson
      [] name = "NoHourly"     -> NoHourly
      [] name = "EmptySeries"  -> EmptySeries
      [] name = "OutOfHorizon" -> OutOfHorizon
      [] name = "NullInSeries" -> NullInSeries

\* what the forecast service may answer to the n retrievals of one request:
\* every combination for n <= FullMix; for longer requests the first or the
\* last waypoint answered with any response and the others with OkSnow
Answers(n) ==
    IF n <= FullMix
    THEN [1..n -> Responses]
    ELSE { [k \in 1..n |-> IF k = d THEN r ELSE "OkSnow"] : d \in {1, n}, r \in Responses }

\* lines 112-116: one future is submitted per waypoint, keyed by its index
FetchSubmit ==
    /\ pc = "fetch"
    /\ stages' = Append(stages, "fetch")
    /\ \E rs \in Answers(Len(waypoints)) : responses' = rs
    /\ futures' = [k \in 1..Len(waypoints) |-> "pending"]
    /\ results' = [k \in 1..Len(waypoints) |-> Raised("unset")]
    /\ writes' = [k \in 1..Len(waypoints) |-> << >>]
    /\ pc' = "collect"
    /\ UNCHANGED << form, message, start_coords, end_coords, route_data, waypoints >>
    /\ UNCHANGED << sampleVars, estimateVars, nearestVars, decodeVars >>

\* an executor that starts a thread for every submitted call
WorkerStartUnbounded(k) ==
    /\ pc = "collect"
    /\ futures[k] = "pending"
    /\ \A j \in 1..(k - 1) : futures[j] # "pending"
    /\ futures' = [futures EXCEPT ![k] = "running"]
    /\ UNCHANGED << pc, waypoints, responses, results, writes >>
    /\ UNCHANGED << planVars, sampleVars, estimateVars, nearestVars, decodeVars >>

\* a free worker thread takes the oldest submitted call and starts _fetch_one
WorkerStart(k) ==
    /\ pc = "collect"
    /\ futures[k] = "pending"
    /\ \A j \in 1..(k - 1) : futures[j] # "pending"
    /\ Cardinality(Running) < max_workers
    /\ futures' = [futures EXCEPT ![k] = "running"]
    /\ UNCHANGED << pc, waypoints, responses, results, writes >>
    /\ UNCHANGED << planVars, sampleVars, estimateVars, nearestVars, decodeVars >>

\* _fetch_one returns or raises; the future holds the outcome
WorkerFinish(k) ==
    /\ pc = "collect"
    /\ futures[k] = "running"
    /\ results' = [results EXCEPT ![k] = fetch_one(waypoints[k], Answer(responses[k]))]
    /\ futures' = [futures EXCEPT ![k] = "finished"]
    /\ UNCHANGED << pc, waypoints, responses, writes >>
    /\ UNCHANGED << planVars, sampleVars, estimateVars, nearestVars, decodeVars >>

\* the collection with a future that is handed over again after it was stored
CollectAgain(k) ==
    /\ pc = "collect"
    /\ futures[k] = "finished"
    /\ waypoints' = [waypoints EXCEPT ![k].weather = Stored(results[k])]
    /\ writes' = [writes EXCEPT ![k] = Append(@, k)]
    /\ UNCHANGED << pc, futures, responses, results >>
    /\ UNCHANGED << planVars, sampleVars, estimateVars, nearestVars, decodeVars >>

\* the collection without the try/except of lines 119-123: future.result()
\* re-raises the retrieval's exception out of fetch_weather_for_waypoints
CollectUnguarded(k) ==
    /\ pc = "collect"
    /\ futures[k] = "finished"
    /\ IF results[k].raised
       THEN /\ pc' = "raised"
            /\ UNCHANGED << waypoints, writes >>
       ELSE /\ waypoints' = [waypoints EXCEPT ![k].weather = results[k].value]
            /\ writes' = [writes EXCEPT ![k] = Append(@, k)]
            /\ pc' = pc
    /\ futures' = [futures EXCEPT ![k] = "collected"]
    /\ UNCHANGED << responses, results >>
    /\ UNCHANGED << planVars, sampleVars, estimateVars, nearestVars, decodeVars >>

\* the collection that stores outcomes in the order the futures complete: the
\* first to finish goes to the first waypoint, the second to the second
CollectInCompletionOrder(k) ==
    LET slot == 1 + Cardinality({ j \in 1..Len(futures) : futures[j] = "collected" })
    IN  /\ pc = "collect"
        /\ futures[k] = "finished"
        /\ waypoints' = [waypoints EXCEPT ![slot].weather = Stored(results[k])]
        /\ writes' = [writes EXCEPT ![slot] = Append(@, k)]
        /\ futures' = [futures EXCEPT ![k] = "collected"]
        /\ UNCHANGED << pc, responses, results >>
        /\ UNCHANGED << planVars, sampleVars, estimateVars, nearestVars, decodeVars >>

\* lines 117-123: as_completed yields a finished future; its outcome is stored
\* in the waypoint the future was submitted for (idx = futures[future])
Collect(k) ==
    /\ pc = "collect"
    /\ futures[k] = "finished"
    /\ waypoints' = [waypoints EXCEPT ![k].weather = Stored(results[k])]
    /\ writes' = [writes EXCEPT ![k] = Append(@, k)]
    /\ futures' = [futures EXCEPT ![k] = "collected"]
    /\ UNCHANGED << pc, responses, results >>
    /\ UNCHANGED << planVars, sampleVars, estimateVars, nearestVars, decodeVars >>

\* lines 117 and 125: as_completed is exhausted, the executor shut down, and
\* the list returned
FetchReturn ==
    /\ pc = "collect"
    /\ \A k \in 1..Len(futures) : futures[k] = "collected"
    /\ pc' = "fetched"
    /\ UNCHANGED << waypoints, fetchVars >>
    /\ UNCHANGED << planVars, sampleVars, estimateVars, nearestVars, decodeVars >>

Fetch ==
    \/ FetchSubmit
    \/ \E k \in 1..Len(futures) : WorkerStart(k)
    \/ \E k \in 1..Len(futures) : WorkerFinish(k)
    \/ \E k \in 1..Len(futures) : Collect(k)
    \/ FetchReturn

-----------------------------------------------------------------------------
(* The sampler on its own: every route geometry of at most MaxSegs segments *)
(* with lengths in SegLens, every interval in SampleIntervals, and a router *)
(* distance that is the geometry's length plus a skew in TotalSkews.        *)

\* segment lengths: 0 (duplicate point), 2/3 mi, 1.5 mi, 2 1/30 mi
SegLens == {0, 20, 45, 61}

\* intervals: -1 mi, 0, 1 mi, 1.5 mi, 2 mi
SampleIntervals == {-30, 0, 30, 45, 60}

\* router distance minus summed segment lengths
TotalSkews == {-4, 0, 7}

RECURSIVE SumSeq(_)
SumSeq(s) == IF s = << >> THEN 0 ELSE s[1] + SumSeq(Tail(s))

\* the geometry with the given segment lengths, starting at position 0
PositionsOf(segs) == [ k \in 1..(Len(segs) + 1) |-> SumSeq(SubSeq(segs, 1, k - 1)) ]

Geometries == { PositionsOf(segs) : segs \in UNION { [1..n -> SegLens] : n \in 1..MaxSegs } }

\* the summed segment lengths of a geometry
RECURSIVE GeomLen(_)
GeomLen(c) ==
    IF Len(c) < 2 THEN 0
    ELSE haversine_mi(c[1], c[2]) + GeomLen(Tail(c))

NoForm == [start |-> "", end |-> "", departure |-> "", interval |-> None, avg_speed |-> None]

PlanIdle ==
    /\ form = NoForm
    /\ stages = << >>
    /\ message = "none"
    /\ start_coords = "unset"
    /\ end_coords = "unset"
    /\ route_data = "unset"

EstimateIdle ==
    /\ departure_dt = 0
    /\ avg_speed = 0

FetchIdle ==
    /\ responses = << >>
    /\ futures = << >>
    /\ results = << >>
    /\ writes = << >>

NearestIdle ==
    /\ times = << >>
    /\ target = 0
    /\ best = None

DecodeIdle ==
    /\ codes = << None, None >>
    /\ decoded = None

InitSample ==
    /\ pc = "sample"
    /\ coords \in Geometries
    /\ interval_mi \in SampleIntervals
    /\ \E k \in TotalSkews :
          /\ GeomLen(coords) + k >= 0
          /\ total_dist_mi = GeomLen(coords) + k
    /\ accumulated = 0
    /\ next_target = 0
    /\ wp_index = 0
    /\ i = 0
    /\ waypoints = << >>
    /\ PlanIdle /\ EstimateIdle /\ FetchIdle /\ NearestIdle /\ DecodeIdle

NextSample == SampleEnter \/ SampleEmit \/ SampleAdvance \/ SampleFinish

SpecSample == InitSample /\ [][NextSample]_vars

\* the waypoints emitted by the while loop, and the one appended at the end
IsCheckpoint(wp) == wp.label[1] = "Checkpoint"

IsDestination(wp) == wp.label[1] = "Destination"

\* C1: for intervalMiles > 0 the sampler returns exactly
\* floor(total_dist_mi / intervalMiles) checkpoint waypoints followed by exactly
\* one destination waypoint, whatever the geometry's summed segment lengths.
C1_CountFromRouterDistance ==
    (pc = "sampled" /\ interval_mi > 0) =>
        /\ Len(waypoints) = (total_dist_mi \div interval_mi) + 1
        /\ IsDestination(waypoints[Len(waypoints)])
        /\ \A k \in 1..(Len(waypoints) - 1) : IsCheckpoint(waypoints[k])

\* C2: for intervalMiles > 0 the returned waypoints' 'mile' is non-decreasing
\* and the last waypoint's 'mile' is the router's total distance (at the stored
\* precision of one decimal).
C2_MileNonDecreasing ==
    (pc = "sampled" /\ interval_mi > 0) =>
        /\ \A k \in 1..(Len(waypoints) - 1) : waypoints[k].mile <= waypoints[k + 1].mile
        /\ waypoints[Len(waypoints)].mile = Round1(total_dist_mi)

\* C8: sample_waypoints terminates for intervalMiles <= 0: it rejects the input
\* and never runs the sampling loop on it, so every pass of the while loop that
\* does run moves next_target forward.
C8_InvalidIntervalTerminates ==
    [][ (SampleEmit /\ pc' = "loop") => (interval_mi > 0 /\ next_target' > next_target) ]_vars

\* C13: for intervalMiles > 0 and any route, duplicate consecutive points
\* included, the sampler never divides by a zero segment length: in every
\* segment the next target is strictly beyond the accumulated distance, so the
\* loop body runs only on a segment of positive length; a route whose segments
\* all have length zero yields the destination waypoint alone.
C13_NoZeroDivision ==
    interval_mi > 0 =>
        /\ pc # "raised"
        /\ InSegment => next_target > accumulated
        /\ (InSegment /\ WhileCond) => seg_dist > 0
        /\ (pc = "sampled" /\ GeomLen(coords) = 0) =>
              /\ Len(waypoints) = 1
              /\ IsDestination(waypoints[1])

\* the loop stands at a zero-length segment right after a checkpoint that fell
\* exactly on the end of the segment before it
C13_Witness ==
    /\ interval_mi > 0
    /\ InSegment
    /\ i > 1
    /\ seg_dist = 0
    /\ Len(waypoints) >= 1
    /\ waypoints[Len(waypoints)].pos = coords[i]
    /\ next_target = accumulated + interval_mi

-----------------------------------------------------------------------------
(* app.py: plan.  pc: "request" -> "geocode" -> "route" -> "sample" ->      *)
(* "loop" -> "sampled" -> "fetch" -> "collect" -> "fetched" -> "responded"; *)
(* "responded" is also reached by every error page, and "raised" by an      *)
(* exception that leaves plan.  A numeric form field is None when its text  *)
(* is no number.                                                            *)

\* the departure field: missing, unparsable, or noon of day 0
DepartureTexts == {"", "not a date", "day0T12:00"}

\* line 56: datetime.fromisoformat(depart_str), in seconds
ParseDeparture(text) == IF text = "day0T12:00" THEN Some(43200) ELSE None

\* lines 45-53: the list of validation errors is not empty
MissingField(f) == f.start = "" \/ f.end = "" \/ f.departure = ""

\* lines 38-58: the form is read and validated
PlanValidate ==
    /\ pc = "request"
    /\ IF form.interval = None \/ form.avg_speed = None
       THEN \* lines 41-42: int() or float() raises ValueError
            /\ pc' = "raised"
            /\ UNCHANGED << message, interval_mi, avg_speed, departure_dt >>
       ELSE IF MissingField(form)
       THEN /\ pc' = "responded"
            /\ message' = "required field missing"
            /\ UNCHANGED << interval_mi, avg_speed, departure_dt >>
       ELSE IF ParseDeparture(form.departure) = None
       THEN /\ pc' = "responded"
            /\ message' = "Invalid date/time format."
            /\ UNCHANGED << interval_mi, avg_speed, departure_dt >>
       ELSE /\ pc' = "geocode"
            /\ interval_mi' = 30 * form.interval[1]
            /\ avg_speed' = form.avg_speed[1]
            /\ departure_dt' = ParseDeparture(form.departure)[1]
            /\ UNCHANGED message
    /\ UNCHANGED << form, stages, start_coords, end_coords, route_data, waypoints >>
    /\ UNCHANGED << coords, total_dist_mi, accumulated, next_target, wp_index, i >>
    /\ UNCHANGED << fetchVars, nearestVars, decodeVars >>

\* routing.py lines 41-52: with CONTACT_EMAIL set, geocode returns coordinates,
\* or None when nothing is found or the request fails
GeocodeOutcomes == {"found", "none"}

\* the checks of lines 64-71 without the one of end_coords
GeocodeVerdictStartOnly(s, e) ==
    IF s = "none" THEN "Could not find address: start" ELSE "ok"

\* app.py lines 64-71: the error page for the two geocoding results, if any
GeocodeVerdict(s, e) ==
    IF s = "none" THEN "Could not find address: start"
    ELSE IF e = "none" THEN "Could not find address: end"
    ELSE "ok"

\* lines 61-71: both addresses are geocoded, then both results are checked;
\* routing.py lines 25-31: without CONTACT_EMAIL in the environment the first
\* call raises RuntimeError
PlanGeocode ==
    /\ pc = "geocode"
    /\ stages' = Append(stages, "geocode")
    /\ \E contact \in BOOLEAN :
          IF ~contact
          THEN /\ pc' = "raised"
               /\ UNCHANGED << start_coords, end_coords, message >>
          ELSE \E s, e \in GeocodeOutcomes :
                 /\ start_coords' = s
                 /\ end_coords' = e
                 /\ IF GeocodeVerdict(s, e) = "ok"
                    THEN pc' = "route" /\ UNCHANGED message
                    ELSE pc' = "responded" /\ message' = GeocodeVerdict(s, e)
    /\ UNCHANGED << form, route_data, waypoints >>
    /\ UNCHANGED << sampleVars, estimateVars, fetchVars, nearestVars, decodeVars >>

\* routing.py lines 78-100: get_route returns the geometry and the router's
\* distance, or None on any error.  The routes: 2 1/30 mi of geometry for a
\* router distance of 1.9 mi; a duplicate first point; two segments of 1.5 mi.
RouterOutcomes ==
    { [ok |-> FALSE, coords |-> << >>, distance_mi |-> 0],
      [ok |-> TRUE, coords |-> << 0, 61 >>, distance_mi |-> 57],
      [ok |-> TRUE, coords |-> << 0, 0, 20 >>, distance_mi |-> 20],
      [ok |-> TRUE, coords |-> << 0, 45, 90 >>, distance_mi |-> 90] }

\* app.py lines 74-85: the route is fetched and checked, and handed to the sampler
PlanRoute ==
    /\ pc = "route"
    /\ stages' = Append(stages, "route")
    /\ \E r \in RouterOutcomes :
          IF r.ok
          THEN /\ route_data' = "found"
               /\ coords' = r.coords
               /\ total_dist_mi' = r.distance_mi
               /\ pc' = "sample"
               /\ UNCHANGED message
          ELSE /\ route_data' = "none"
               /\ message' = "Could not compute route."
               /\ pc' = "responded"
               /\ UNCHANGED << coords, total_dist_mi >>
    /\ UNCHANGED << form, start_coords, end_coords, waypoints >>
    /\ UNCHANGED << interval_mi, accumulated, next_target, wp_index, i >>
    /\ UNCHANGED << estimateVars, fetchVars, nearestVars, decodeVars >>

\* lines 96-111: the map is built and the result page rendered
PlanRender ==
    /\ pc = "fetched"
    /\ stages' = Append(stages, "render")
    /\ message' = "result"
    /\ pc' = "responded"
    /\ UNCHANGED << form, start_coords, end_coords, route_data, waypoints >>
    /\ UNCHANGED << sampleVars, estimateVars, fetchVars, nearestVars, decodeVars >>

\* the values the two numeric form fields take: no number, or a number
IntervalInputs == { None, Some(-1), Some(0), Some(1), Some(2) }

SpeedInputs == { None, Some(-60), Some(0), Some(60) }

Init ==
    /\ pc = "request"
    /\ form \in [ start : {"", "A"}, end : {"", "B"}, departure : DepartureTexts,
                   interval : IntervalInputs, avg_speed : SpeedInputs ]
    /\ stages = << >>
    /\ message = "none"
    /\ start_coords = "unset" /\ end_coords = "unset" /\ route_data = "unset"
    /\ coords = << >> /\ interval_mi = 0 /\ total_dist_mi = 0
    /\ accumulated = 0 /\ next_target = 0 /\ wp_index = 0 /\ i = 0
    /\ waypoints = << >>
    /\ EstimateIdle /\ FetchIdle /\ NearestIdle /\ DecodeIdle

Next ==
    \/ PlanValidate
    \/ PlanGeocode
    \/ PlanRoute
    \/ SampleEnter
    \/ SampleEmit
    \/ SampleAdvance
    \/ SampleFinish
    \/ PlanEstimate
    \/ FetchSubmit
    \/ \E k \in 1..Len(futures) : WorkerStart(k)
    \/ \E k \in 1..Len(futures) : WorkerFinish(k)
    \/ \E k \in 1..Len(futures) : Collect(k)
    \/ FetchReturn
    \/ PlanRender

Spec == Init /\ [][Next]_vars

\* the later stages of the pipeline that the request has started
Started(stage) == \E k \in 1..Len(stages) : stages[k] = stage

\* the request's input is invalid: an address or the departure missing, the
\* departure unparsable, or a numeric interval or speed that is not positive
InvalidInput ==
    \/ MissingField(form)
    \/ ParseDeparture(form.departure) = None
    \/ form.interval # None /\ form.interval[1] <= 0
    \/ form.avg_speed # None /\ form.avg_speed[1] <= 0

\* C7: a request with invalid input is rejected with a message before any
\* pipeline stage runs: no geocoding, routing, sampling, estimation or fetch.
C7_InvalidInputRejected ==
    InvalidInput =>
        /\ stages = << >>
        /\ pc \in {"request", "responded", "raised"}
        /\ pc = "responded" => message \in {"required field missing", "Invalid date/time format."}

\* C9: when the geocoder finds nothing for the start or the end address, or
\* the router fails, the request ends with an error message and no later stage
\* is started: no routing after a geocoding miss, and never sampling, arrival
\* estimation, forecast retrieval or rendering.
C9_UpstreamFailureAborts ==
    (start_coords = "none" \/ end_coords = "none" \/ route_data = "none") =>
        /\ pc = "responded"
        /\ message \in { "Could not find address: start", "Could not find address: end",
                          "Could not compute route." }
        /\ route_data = "none" <=> Started("route")
        /\ ~Started("sample") /\ ~Started("estimate") /\ ~Started("fetch")
        /\ ~Started("render")
        /\ waypoints = << >>

\* the end address was not found, after the start address was
C9_Witness ==
    /\ start_coords = "found"
    /\ end_coords = "none"
    /\ pc = "responded"
    /\ message = "Could not find address: end"

-----------------------------------------------------------------------------
(* fetch_weather_for_waypoints on its own: the waypoints of a route of n    *)
(* miles sampled every mile, n in 1..MaxWaypoints, left at noon of day 0    *)
(* at 60 mph, with the answers of Answers(n).                              *)

SampledEveryMile(n) ==
    [ k \in 1..n |->
        [ pos     |-> 30 * k,
          mile    |-> 10 * k,
          label   |-> IF k < n THEN << "Checkpoint", k, k >> ELSE << "Destination", 0, k >>,
          arrival |-> NoArrival,
          weather |-> Pending ] ]

InitFetch ==
    /\ pc = "fetch"
    /\ departure_dt = 43200
    /\ avg_speed = 60
    /\ \E n \in 1..MaxWaypoints :
          waypoints = WithArrivals(SampledEveryMile(n), departure_dt, avg_speed)
    /\ coords = << >> /\ interval_mi = 0 /\ total_dist_mi = 0
    /\ accumulated = 0 /\ next_target = 0 /\ wp_index = 0 /\ i = 0
    /\ PlanIdle /\ FetchIdle /\ NearestIdle /\ DecodeIdle

NextFetch == Fetch

SpecFetch == InitFetch /\ [][NextFetch]_vars

\* the retrieval for waypoint k fails: an exception, a non-200 status, a
\* payload without hourly data or with an empty series, a series with no
\* usable entry within 12 hours of the arrival
Fails(k) ==
    LET r == Answer(responses[k])
    IN  \/ r.raises # "none"
        \/ r.status # 200
        \/ ~r.has_hourly
        \/ \A j \in 1..Len(r.hourly.time) :
              \/ r.hourly.time[j].k # "ts"
              \/ Abs(r.hourly.time[j].t - waypoints[k].arrival.dt) > 12 * 3600
        \/ \E j \in 1..Len(r.hourly.time) : r.hourly.time[j].k = "null"

Unavailable(w) == w # Pending /\ ~w.available /\ w.reason # None /\ w.reason # Some("")

Populated(w) == w # Pending /\ w.available

\* C4: when fetch_weather_for_waypoints returns, every waypoint has a weather
\* record, populated or unavailable with a reason, whatever the retrievals'
\* outcomes and the order they completed in.
C4_EveryWaypointHasWeather ==
    pc = "fetched" =>
        \A k \in 1..Len(waypoints) :
            \/ Populated(waypoints[k].weather) /\ ~Fails(k)
            \/ Unavailable(waypoints[k].weather) /\ Fails(k)

\* returned with a populated record next to one from a raised exception
C4_Witness ==
    /\ pc = "fetched"
    /\ \E j, k \in 1..Len(waypoints) :
          /\ Populated(waypoints[j].weather)
          /\ results[k].raised
          /\ Unavailable(waypoints[k].weather)

\* C5: each waypoint's weather slot is written exactly once, from pending to a
\* record that never changes afterwards, with the outcome of the one retrieval
\* submitted for it; no slot is ever written for two retrievals.
C5_WrittenOnce ==
    /\ [](\A k \in 1..Len(writes) :
            /\ writes[k] \in { << >>, << k >> }
            /\ (waypoints[k].weather = Pending) <=> (writes[k] = << >>)
            /\ pc = "fetched" => writes[k] = << k >>)
    /\ [][\A k \in 1..Len(writes) :
            waypoints[k].weather # Pending => waypoints'[k].weather = waypoints[k].weather]_vars

\* all slots of a request of more waypoints than workers were written
C5_Witness ==
    /\ pc = "fetched"
    /\ Len(waypoints) > max_workers
    /\ \A k \in 1..Len(waypoints) : writes[k] = << k >> /\ waypoints[k].weather # Pending

\* C6: a failing retrieval gives its own waypoint an unavailable record with a
\* reason, is never raised out of fetch_weather_for_waypoints, and leaves every
\* sibling retrieval to run and every sibling's record what that sibling's own
\* answer makes it.
C6_FailureIsolated ==
    /\ pc # "raised"
    /\ pc \in {"collect", "fetched"} =>
          \A k \in 1..Len(waypoints) :
             /\ pc = "fetched" => futures[k] = "collected"
             /\ futures[k] = "collected" =>
                   /\ Fails(k) => Unavailable(waypoints[k].weather)
                   /\ ~Fails(k) =>
                         /\ Populated(waypoints[k].weather)
                         /\ waypoints[k].weather =
                               WeatherAt(Answer(responses[k]).hourly,
                                   nearest_hour_index(Answer(responses[k]).hourly.time,
                                                      waypoints[k].arrival.dt).idx[1])

\* one retrieval raised and was collected first; its siblings, more than the
\* pool has workers, all ran and hold populated records
C6_Witness ==
    /\ pc = "fetched"
    /\ Len(waypoints) > max_workers
    /\ \E k \in 1..Len(waypoints) :
          /\ results[k].raised
          /\ Unavailable(waypoints[k].weather)
          /\ \A j \in 1..Len(waypoints) \ {k} : Populated(waypoints[j].weather)

-----------------------------------------------------------------------------
(* _nearest_hour_index on its own: every series of at most MaxSeries entries *)
(* drawn from SeriesEntries, against every target in Targets.               *)

\* longest series
MaxSeries == 3

\* targets: 12:00:00 and 12:30:00 of day 0
Targets == {43200, 45000}

\* 23:00 the day before, 00:00, 00:30, 11:00, 12:00, 13:00, 24:00, 24:30, 25:00
SeriesTimes == {-3600, 0, 1800, 39600, 43200, 46800, 86400, 88200, 90000}

SeriesEntries == { Ts(t) : t \in SeriesTimes } \cup {BadText, Null}

InitNearest ==
    /\ pc = "nearest"
    /\ times \in UNION { [1..n -> SeriesEntries] : n \in 0..MaxSeries }
    /\ target \in Targets
    /\ best = None
    /\ coords = << >> /\ interval_mi = 0 /\ total_dist_mi = 0
    /\ accumulated = 0 /\ next_target = 0 /\ wp_index = 0 /\ i = 0
    /\ waypoints = << >>
    /\ PlanIdle /\ EstimateIdle /\ FetchIdle /\ DecodeIdle

NextNearest == NearestCall

SpecNearest == InitNearest /\ [][NextNearest]_vars

\* the positions of the series that hold a parsable timestamp
Parsable == { k \in 1..Len(times) : times[k].k = "ts" }

DiffAt(k) == Abs(times[k].t - target)

\* the positions whose entry attains the minimum difference to the target
Nearest == { k \in Parsable : \A j \in Parsable : DiffAt(k) <= DiffAt(j) }

HasNull == \E k \in 1..Len(times) : times[k].k = "null"

\* C3: on a series of time strings, _nearest_hour_index returns None when the
\* series is empty or every entry is more than 12 hours from the target;
\* otherwise it returns the first position, in scan order, among those whose
\* entry attains the minimum absolute difference (exactly 12 hours is in range).
C3_NearestHour ==
    (pc = "nearest_done" /\ ~HasNull) =>
        /\ ~best.raised
        /\ IF \A k \in Parsable : DiffAt(k) > 12 * 3600
           THEN best.idx = None
           ELSE /\ best.idx # None
                /\ best.idx[1] \in Nearest
                /\ \A j \in Nearest : best.idx[1] <= j

\* two entries exactly 12 hours from the target tie, and the first is returned
C3_Witness ==
    /\ pc = "nearest_done"
    /\ ~HasNull
    /\ Cardinality(Nearest) >= 2
    /\ \A k \in Nearest : DiffAt(k) = 12 * 3600
    /\ best.idx # None
    /\ \E j \in Nearest : j > best.idx[1]

-----------------------------------------------------------------------------
(* The decoder on its own: every pair of a precipitation_type value in      *)
(* PrecipValues and a weather_code value in WmoValues.                      *)

\* every key of _PRECIP_TYPE_MAP, an unknown code (2), and a null
PrecipValues == { Some(c) : c \in {0, 1, 2, 3, 5, 6, 7, 8, 12} } \cup {None}

\* every key of _WMO_PRECIP_TYPE, keys of _WMO_LABEL only, an unknown code (4),
\* and a null
WmoValues ==
    { Some(w) : w \in {0, 3, 4, 45, 48, 61, 71, 80, 81, 82, 85, 86, 95, 96, 99} } \cup {None}

InitDecode ==
    /\ pc = "decode"
    /\ codes \in PrecipValues \X WmoValues
    /\ decoded = None
    /\ coords = << >> /\ interval_mi = 0 /\ total_dist_mi = 0
    /\ accumulated = 0 /\ next_target = 0 /\ wp_index = 0 /\ i = 0
    /\ waypoints = << >>
    /\ PlanIdle /\ EstimateIdle /\ FetchIdle /\ NearestIdle

NextDecode == DecodeCall

SpecDecode == InitDecode /\ [][NextDecode]_vars

\* what the secondary (WMO) code maps to, per the table of lines 95-100
SecondaryIs(tag) ==
    /\ codes[2] # None
    /\ codes[2][1] \in ( CASE tag = "fog"          -> {45, 48}
                          [] tag = "showers"      -> {80, 81, 82}
                          [] tag = "snow_showers" -> {85, 86}
                          [] tag = "thunderstorm" -> {95, 96, 99} )

\* what the primary code alone says, per the table of lines 43-52
PrimaryTag ==
    IF codes[1] = None THEN None
    ELSE CASE codes[1][1] = 1          -> Some("rain")
           [] codes[1][1] \in {3, 12} -> Some("freezing_rain")
           [] codes[1][1] \in {5, 6}  -> Some("snow")
           [] codes[1][1] \in {7, 8}  -> Some("sleet")
           [] OTHER                   -> None

\* C10: the decoded precipitation type is fog or thunderstorm when the
\* secondary code maps to one of them; otherwise the primary code's type when
\* that is non-null; otherwise showers or snow_showers when the secondary maps
\* to one of them; otherwise null.
C10_DecodePrecedence ==
    pc = "decode_done" =>
        LET got == decoded[1].precip_type
        IN  /\ SecondaryIs("fog") => got = Some("fog")
            /\ SecondaryIs("thunderstorm") => got = Some("thunderstorm")
            /\ (~SecondaryIs("fog") /\ ~SecondaryIs("thunderstorm")) =>
                  /\ PrimaryTag # None => got = PrimaryTag
                  /\ (PrimaryTag = None /\ SecondaryIs("showers")) => got = Some("showers")
                  /\ (PrimaryTag = None /\ SecondaryIs("snow_showers")) =>
                        got = Some("snow_showers")
                  /\ (PrimaryTag = None /\ ~SecondaryIs("showers")
                        /\ ~SecondaryIs("snow_showers")) => got = None

\* primary 5 (snow) with a showers secondary (80) was decoded, and gave snow
C10_Witness ==
    /\ pc = "decode_done"
    /\ codes = << Some(5), Some(80) >>
    /\ decoded[1].precip_type = Some("snow")

-----------------------------------------------------------------------------
(* _nearest_hour_index on series with unparsable entries.                   *)

\* the positions holding malformed text or a null
Unparsable == { k \in 1..Len(times) : times[k].k # "ts" }

\* what the scan returns over the parsable entries alone, each at its
\* original position
OverParsable ==
    IF \E k \in Parsable : DiffAt(k) <= 12 * 3600
    THEN Some(CHOOSE k \in Nearest : \A j \in Nearest : k <= j)
    ELSE None

\* C14: an unparsable entry of the series, malformed text or a null, is
\* skipped: it is never selected, the call does not raise, and the index
\* returned is the one the scan returns over the parsable entries alone.
C14_UnparsableSkipped ==
    (pc = "nearest_done" /\ Unparsable # {}) =>
        /\ ~best.raised
        /\ \A k \in Unparsable : best.idx # Some(k)
        /\ best.idx = OverParsable

-----------------------------------------------------------------------------
(* sample_waypoints followed by estimate_arrival_times: the geometries and  *)
(* intervals of the sampler's own specification, and a route of 120 mi      *)
(* sampled every 50 mi; departure at 08:00 of day 0; speeds in Speeds.      *)

\* 08:00:00 of day 0
EightOClock == 8 * 3600

\* mph; 0 and a negative speed are what plan lets through
Speeds == {-60, 0, 45, 60}

\* one segment of 120 mi
Route120 == << 0, 3600 >>

InitEstimate ==
    /\ pc = "sample"
    /\ \/ /\ coords \in Geometries
          /\ interval_mi \in SampleIntervals
          /\ \E k \in TotalSkews :
                /\ GeomLen(coords) + k >= 0
                /\ total_dist_mi = GeomLen(coords) + k
       \/ /\ coords = Route120
          /\ interval_mi = 1500
          /\ total_dist_mi = 3600
    /\ departure_dt = EightOClock
    /\ avg_speed \in Speeds
    /\ accumulated = 0
    /\ next_target = 0
    /\ wp_index = 0
    /\ i = 0
    /\ waypoints = << >>
    /\ PlanIdle /\ FetchIdle /\ NearestIdle /\ DecodeIdle

NextEstimate == SampleEnter \/ SampleEmit \/ SampleAdvance \/ SampleFinish \/ PlanEstimate

SpecEstimate == InitEstimate /\ [][NextEstimate]_vars

\* the miles (in tenths) and the arrivals (in seconds) of the waypoint list
Miles == [ k \in 1..Len(waypoints) |-> waypoints[k].mile ]

Arrivals == [ k \in 1..Len(waypoints) |-> waypoints[k].arrival.dt ]

\* t is departure + mile / speed hours, to the resolution of the clock
\* (half a second): |(t - departure) * speed - mile * 360| <= speed / 2
OnTime(t, mile) == 2 * Abs((t - departure_dt) * avg_speed - mile * 360) <= avg_speed

\* C11: after sample_waypoints and estimate_arrival_times with avgSpeedMph > 0
\* every waypoint's arrival is departure + distance / speed hours and the
\* waypoints keep their order, position, distance and label; 120 mi sampled
\* every 50 mi, leaving at 08:00 at 60 mph, gives miles 50, 100, 120 and
\* arrivals 08:50, 09:40, 10:00.
C11_ArrivalTimes ==
    /\ []((pc = "fetch" /\ avg_speed > 0) =>
            /\ \A k \in 1..Len(waypoints) :
                  /\ waypoints[k].arrival.set
                  /\ OnTime(waypoints[k].arrival.dt, waypoints[k].mile)
            /\ (coords = Route120 /\ avg_speed = 60) =>
                  /\ Miles = << 500, 1000, 1200 >>
                  /\ Arrivals = << 8 * 3600 + 50 * 60, 9 * 3600 + 40 * 60, 10 * 3600 >>)
    /\ [][PlanEstimate =>
            /\ Len(waypoints') = Len(waypoints)
            /\ \A k \in 1..Len(waypoints) :
                  /\ waypoints'[k].pos = waypoints[k].pos
                  /\ waypoints'[k].mile = waypoints[k].mile
                  /\ waypoints'[k].label = waypoints[k].label]_vars

\* the 120 mi route was sampled and timed at 60 mph
C11_Witness ==
    /\ pc = "fetch"
    /\ coords = Route120
    /\ avg_speed = 60
    /\ Len(waypoints) = 3
    /\ waypoints[3].arrival = [set |-> TRUE, dt |-> 36000, str |-> 600]

-----------------------------------------------------------------------------
(* The worker pool of fetch_weather_for_waypoints.                          *)

Waiting == { k \in 1..Len(futures) : futures[k] = "pending" }

Finished == { k \in 1..Len(futures) : futures[k] = "finished" }

Collected == { k \in 1..Len(futures) : futures[k] = "collected" }

\* how far the futures have got: it is at most 3 * Len(futures)
Progress == Cardinality(Running) + 2 * Cardinality(Finished) + 3 * Cardinality(Collected)

\* C12: at most 6 retrievals are in flight at any moment, however many
\* waypoints there are; a waypoint beyond the ceiling waits for a free worker,
\* and all are retrieved in the end: with no retrieval in flight the stage is
\* never stuck, every step of it moves a future forward, and it returns only
\* with every future retrieved.
C12_PoolCeiling ==
    /\ [](/\ Cardinality(Running) <= 6
          /\ (Waiting # {} /\ Cardinality(Running) < 6) =>
                \E k \in Waiting : ENABLED WorkerStart(k)
          /\ (pc = "collect" /\ Running = {}) =>
                \/ ENABLED FetchReturn
                \/ \E k \in Finished : ENABLED Collect(k)
                \/ \E k \in Waiting : ENABLED WorkerStart(k)
          /\ pc = "fetched" =>
                \A k \in 1..Len(futures) :
                   /\ futures[k] = "collected"
                   /\ results[k] = fetch_one(waypoints[k], Answer(responses[k])))
    /\ [][/\ (pc = "collect" /\ pc' = "collect") => Progress' > Progress
          /\ \A k \in 1..Len(futures) :
                (futures[k] = "pending" /\ futures'[k] # "pending") =>
                   /\ futures'[k] = "running"
                   /\ Cardinality(Running) < 6]_vars

\* six retrievals are running and a seventh waypoint waits for a worker
C12_Witness ==
    /\ pc = "collect"
    /\ Cardinality(Running) = 6
    /\ Waiting # {}

\* the list fetch_weather_for_waypoints was called with
Submitted == WithArrivals(SampledEveryMile(Len(futures)), departure_dt, avg_speed)

\* C15: whatever the order the retrievals complete in, the waypoints stay the
\* same list in the same order with position, distance, label and arrival
\* unchanged, and the weather stored on waypoint k is the outcome of the
\* retrieval submitted for waypoint k, never that of another waypoint.
C15_ResultOnOwnWaypoint ==
    /\ [](pc \in {"collect", "fetched"} =>
            /\ Len(waypoints) = Len(Submitted)
            /\ \A k \in 1..Len(waypoints) :
                  /\ [waypoints[k] EXCEPT !.weather = Pending] = Submitted[k]
                  /\ waypoints[k].weather =
                        IF futures[k] = "collected"
                        THEN Stored(fetch_one(Submitted[k], Answer(responses[k])))
                        ELSE Pending)
    /\ [][\A k \in 1..Len(futures) :
            waypoints'[k].weather # waypoints[k].weather =>
               /\ futures[k] = "finished"
               /\ futures'[k] = "collected"]_vars

\* the second waypoint's retrieval completed and was stored while the first,
\* which has a different answer, is still running
C15_Witness ==
    /\ pc = "collect"
    /\ Len(futures) >= 2
    /\ futures[1] = "running"
    /\ futures[2] = "collected"
    /\ responses[1] # responses[2]
    /\ waypoints[1].weather = Pending
    /\ waypoints[2].weather = Stored(results[2])

====
